---- MODULE Spec2Model ----
(***************************************************************************)
(* paper-reader: the application controller (src/App.tsx), the analysis    *)
(* client (src/services/geminiService.ts), the upload surface              *)
(* (src/components/FileUpload.tsx) and the document viewer                 *)
(* (src/components/PdfViewer.tsx).                                         *)
(*                                                                         *)
(* Spec is App with its upload surface, ClientSpec the client under any    *)
(* caller, ViewerSpec the viewer's state and handlers, RenderSpec the      *)
(* viewer's renderPage calls, PreviewSpec App together with its viewer,    *)
(* OpenSpec App opening and closing documents in its viewer.               *)
(*                                                                         *)
(* The browser runs one thread.  A handler runs up to its next await in    *)
(* one step; a settled promise's continuation is a microtask and runs      *)
(* before any other event, so every other action waits for it              *)
(* (NoMicrotask).  React state written in one step is seen by the next     *)
(* event's handlers, which are the closures of the latest render.          *)
(***************************************************************************)
EXTENDS Integers, Sequences, FiniteSets, TLC

\* Bounds of the model.
MaxSessions == 2     \* files selected in one run
MaxTranslate == 2    \* translateAnalysis calls in one run
MaxPages == 2        \* pages of a document
MaxRenders == 3      \* renderPage calls of one viewer
MaxBurst == 2        \* wheel events handled before the viewer renders again

Sessions == 1..MaxSessions
TranslateIds == 1..MaxTranslate

\* JavaScript null / undefined.
Null == [tag |-> "null"]

Truthy(v) == v # Null

\* A string held in state (state.error).
Str(text) == [tag |-> "str", text |-> text]

\* The object URL and the name of the s-th selected file.
ObjectUrl(s) == [tag |-> "url", id |-> s]
FileName(s) == [tag |-> "name", id |-> s]

(***************************************************************************)
(* The analysis record and the remote payloads.                            *)
(***************************************************************************)
RequiredFields ==
    {"problemSolved", "innovations", "comparisonMethods", "limitations", "summary"}

\* A parsed JSON object: the keys it has, the file whose analysis it is
\* (provenance) and the language of its values.
Obj(fields, of, lang) == [tag |-> "obj", fields |-> fields, of |-> of, lang |-> lang]

\* What response.text can be: nothing, text that is not JSON, the JSON value
\* null, or a JSON object with some set of keys.
FieldSets == {RequiredFields, RequiredFields \ {"summary"}}

Payloads ==
    {[kind |-> "empty", fields |-> {}],
     [kind |-> "malformed", fields |-> {}],
     [kind |-> "jsonNull", fields |-> {}]}
    \cup {[kind |-> "object", fields |-> F] : F \in FieldSets}

(***************************************************************************)
(* Errors: a thrown value, whether it is an Error instance, its message,   *)
(* and the failure kind of the taxonomy it belongs to.                     *)
(***************************************************************************)
Error(kind, message) == [isError |-> TRUE, kind |-> kind, message |-> message]

\* reader.onerror rejects with the ProgressEvent: no Error, no message.
ProgressEvent == [isError |-> FALSE, kind |-> "ReadError", message |-> ""]

NoError == [isError |-> FALSE, kind |-> "none", message |-> ""]

MissingKeyAnalyze ==
    Error("MissingCredential",
          "API Key is missing. Please check your environment configuration.")

MissingKeyTranslate == Error("MissingCredential", "API Key is missing.")

NoResponse == Error("UpstreamError", "No response received from Gemini.")

SyntaxError == Error("SchemaViolation", "Unexpected token < in JSON at position 0")

\* Messages of a rejected generateContent call: a network failure, and the
\* remote service refusing the key it was sent.
UpstreamMessages ==
    {"Failed to fetch", "API Key not found. Please pass a valid API key."}

\* String.prototype.includes.
Includes(s, sub) ==
    \E i \in 1..(Len(s) - Len(sub) + 1) : SubSeq(s, i, i + Len(sub) - 1) = sub

\* A settled promise: resolved with a value or rejected with an error.
Resolve(value) == [ok |-> TRUE, value |-> value, err |-> NoError]
Reject(err) == [ok |-> FALSE, value |-> Null, err |-> err]
Pending == [ok |-> FALSE, value |-> Null, err |-> NoError]

\* The texts of window.alert.
NoAlert == ""
PdfOnlyAlert == "Please upload a PDF file."
TranslationFailedAlert == "Translation failed. Please try again."

\* file.type of the files a user can offer.
PdfType == "application/pdf"
FileTypes == {PdfType, "text/plain"}

(***************************************************************************)
(* Values of src/components/PdfViewer.tsx.  The scale is kept in tenths:   *)
(* 1.0 is 10, the zoom step 0.1 is 1.                                      *)
(***************************************************************************)
InitialScale == 10
ZoomStep == 1
MinScale == 5
MaxScale == 30

RenderIds == 1..MaxRenders

\* A document pdf.js opened, by its number of pages.
Doc(n) == [tag |-> "doc", numPages |-> n]

\* page.getViewport({scale}) of page p: the size the canvas is given.
Viewport(p, z) == [tag |-> "viewport", page |-> p, scale |-> z]
\* The size of a canvas element nobody has set.
DefaultSize == [tag |-> "default"]

\* What a canvas shows: nothing (a canvas is cleared when its width or
\* height is set), page p drawn completely at scale z, or the part of a
\* page a render task drew before it stopped.
Blank == [tag |-> "blank"]
Bitmap(p, z) == [tag |-> "bitmap", page |-> p, scale |-> z]
Partial == [tag |-> "partial"]

\* The canvas element.  painter is the render call whose task is drawing on
\* it since it was last sized.
NoCanvas == [size |-> DefaultSize, shows |-> Blank, painter |-> 0]

\* A renderPage call.  superseded is history: a later call was issued
\* before this one was over.  Of a call that is over, the page and the scale
\* are not kept.
NoCall ==
    [pc |-> "none", page |-> 0, scale |-> 0, cancelled |-> FALSE, outcome |-> "none",
     superseded |-> FALSE]

VARIABLES
    apiKey,          \* process.env.API_KEY is set
    state,           \* App: AnalysisState {isLoading, error, data}
    fileName,        \* App: fileName
    pdfUrl,          \* App: pdfUrl (the object URL of the selected file)
    revoked,         \* URL.revokeObjectURL calls per object URL
    translatedData,  \* App: translatedData
    language,        \* App: language
    isTranslating,   \* App: isTranslating
    session,         \* number of files selected so far; the current file
    aTask,           \* analyzePaper calls, one per selected file
    tTask,           \* translateAnalysis calls, in order of issue; of a call that
                     \* is over, only whether it returned a record is kept
    analyzeCalls,    \* history: analyzePaper invocations per file
    lastFailure,     \* history: the error state.error was computed from
    lastToggle,      \* history: the branch the session's last toggle took
    dirtyBefore,     \* history: the session's selectFile found a cached
                     \* translation and the target language active
    appMounted,      \* App is mounted
    fileType,        \* history: file.type of the file the last step handed to
                     \* onFileSelect, "" if it handed none
    lastAlert,       \* history: the text the last step gave window.alert
    url,             \* PdfViewer: the url prop; Null while no viewer is mounted
    pdfDoc,          \* PdfViewer: pdfDoc
    pageNum,         \* PdfViewer: pageNum
    pageInput,       \* PdfViewer: pageInput
    numPages,        \* PdfViewer: numPages
    scale,           \* PdfViewer: scale, in tenths
    isLoading,       \* PdfViewer: isLoading
    loadTask,        \* PdfViewer: the getDocument call of loadPdf
    rendered,        \* PdfViewer: the state the last render and its effects saw;
                     \* the registered wheel listener closes over it
    rCall,           \* PdfViewer: renderPage calls, in order of issue
    renderTaskRef,   \* PdfViewer: renderTaskRef.current, by renderPage call
    canvas,          \* the canvas element: its dimensions and what it shows
    liveDocs,        \* history: the documents getDocument opened for a mounted
                     \* viewer and nothing has destroyed (PreviewSpec leaves
                     \* the count out)
    lastEvent        \* history: "zoomAtBound" if the last step was a zoom step
                     \* that found the scale at the bound it stepped towards,
                     \* "renderError" if it gave console.error a render error

viewVars ==
    <<url, pdfDoc, pageNum, pageInput, numPages, scale, isLoading, loadTask, rendered,
      rCall, renderTaskRef, canvas, liveDocs, lastEvent>>

vars ==
    <<apiKey, state, fileName, pdfUrl, revoked, translatedData, language,
      isTranslating, session, aTask, tTask, analyzeCalls, lastFailure, lastToggle, dirtyBefore,
      appMounted, fileType, lastAlert, viewVars>>

appVars == <<state, fileName, pdfUrl, translatedData, language, isTranslating>>

histVars == <<lastFailure, lastToggle, dirtyBefore>>

Idle == [isLoading |-> FALSE, error |-> Null, data |-> Null]
Loading == [isLoading |-> TRUE, error |-> Null, data |-> Null]
Ready(data) == [isLoading |-> FALSE, error |-> Null, data |-> data]
Failed(message) == [isLoading |-> FALSE, error |-> Str(message), data |-> Null]

NoTask == [pc |-> "none", reads |-> 0, remote |-> 0, result |-> Pending]

NoTranslate ==
    [pc |-> "none", remote |-> 0, result |-> Pending, src |-> Null, session |-> 0,
     returned |-> FALSE]

\* The values a render of PdfViewer sees.
Rendering ==
    [pdfDoc |-> pdfDoc, pageNum |-> pageNum, numPages |-> numPages, scale |-> scale,
     isLoading |-> isLoading]

\* No PdfViewer is mounted; its state holds the useState initial values.
NoViewer ==
    /\ url = Null
    /\ pdfDoc = Null
    /\ pageNum = 1
    /\ pageInput = "1"
    /\ numPages = 0
    /\ scale = InitialScale
    /\ isLoading = TRUE
    /\ loadTask = "none"
    /\ rendered = Rendering
    /\ rCall = [i \in RenderIds |-> NoCall]
    /\ renderTaskRef = 0
    /\ canvas = NoCanvas
    /\ liveDocs = 0
    /\ lastEvent = "none"

AppInit ==
    /\ apiKey \in BOOLEAN
    /\ state = Idle
    /\ fileName = Null
    /\ pdfUrl = Null
    /\ revoked = [s \in Sessions |-> 0]
    /\ translatedData = Null
    /\ language = "en"
    /\ isTranslating = FALSE
    /\ session = 0
    /\ aTask = [s \in Sessions |-> NoTask]
    /\ tTask = [i \in TranslateIds |-> NoTranslate]
    /\ analyzeCalls = [s \in Sessions |-> 0]
    /\ lastFailure = NoError
    /\ lastToggle = "none"
    /\ dirtyBefore = FALSE
    /\ appMounted = TRUE
    /\ fileType = ""
    /\ lastAlert = NoAlert

\* The application as mounted; the PdfViewer child is left out.
Init == AppInit /\ NoViewer

\* No promise continuation is waiting to run.
NoMicrotask ==
    /\ \A s \in Sessions : aTask[s].pc # "settled"
    /\ \A i \in TranslateIds : tTask[i].pc # "settled"

(***************************************************************************)
(* The analysis client, src/services/geminiService.ts.                     *)
(***************************************************************************)

\* response.text checked and parsed: `if (!text) throw ...; return
\* JSON.parse(text) as PaperAnalysis`.  The cast checks nothing.
JSONParse(p, of, lang) ==
    CASE p.kind = "empty" -> Reject(NoResponse)
      [] p.kind = "malformed" -> Reject(SyntaxError)
      [] p.kind = "jsonNull" -> Resolve(Null)
      [] OTHER -> Resolve(Obj(p.fields, of, lang))

\* A faulty analyzePaper: the file is read before the key is checked.
analyzePaperReadsFirst(s) ==
    [pc |-> "reading", reads |-> 1, remote |-> 0, result |-> Pending]

\* analyzePaper up to its first await: the key check, then the file read
\* is started.
analyzePaper(s) ==
    IF ~apiKey
    THEN [pc |-> "settled", reads |-> 0, remote |-> 0,
          result |-> Reject(MissingKeyAnalyze)]
    ELSE [pc |-> "reading", reads |-> 1, remote |-> 0, result |-> Pending]

\* reader.onload: the bytes are read and generateContent is called with them.
processFileToBase64Resolve(s) ==
    /\ NoMicrotask
    /\ aTask[s].pc = "reading"
    /\ aTask' = [aTask EXCEPT ![s].pc = "remote", ![s].remote = @ + 1]
    /\ UNCHANGED <<apiKey, revoked, appVars, session, tTask, analyzeCalls, histVars>>

\* reader.onerror: the promise rejects with the event, outside the try.
processFileToBase64Reject(s) ==
    /\ NoMicrotask
    /\ aTask[s].pc = "reading"
    /\ aTask' = [aTask EXCEPT ![s].pc = "settled", ![s].result = Reject(ProgressEvent)]
    /\ UNCHANGED <<apiKey, revoked, appVars, session, tTask, analyzeCalls, histVars>>

\* A faulty analyzePaperRemoteError: a rejected request is sent once more.
analyzePaperRemoteErrorRetries(s, m) ==
    /\ NoMicrotask
    /\ aTask[s].pc = "remote"
    /\ aTask' = IF aTask[s].remote < 2
                THEN [aTask EXCEPT ![s].remote = @ + 1]
                ELSE [aTask EXCEPT ![s].pc = "settled",
                                   ![s].result = Reject(Error("UpstreamError", m))]
    /\ UNCHANGED <<apiKey, revoked, appVars, session, tTask, analyzeCalls, histVars>>

\* generateContent rejects: logged and rethrown.
analyzePaperRemoteError(s, m) ==
    /\ NoMicrotask
    /\ aTask[s].pc = "remote"
    /\ aTask' = [aTask EXCEPT ![s].pc = "settled",
                              ![s].result = Reject(Error("UpstreamError", m))]
    /\ UNCHANGED <<apiKey, revoked, appVars, session, tTask, analyzeCalls, histVars>>

\* generateContent resolves with payload p.
analyzePaperResponse(s, p) ==
    /\ NoMicrotask
    /\ aTask[s].pc = "remote"
    /\ aTask' = [aTask EXCEPT ![s].pc = "settled", ![s].result = JSONParse(p, s, "en")]
    /\ UNCHANGED <<apiKey, revoked, appVars, session, tTask, analyzeCalls, histVars>>

\* translateAnalysis up to its await: the key check, then generateContent
\* is called with the record.
translateAnalysis(data, sess) ==
    IF ~apiKey
    THEN [pc |-> "settled", remote |-> 0, result |-> Reject(MissingKeyTranslate),
          src |-> data, session |-> sess, returned |-> FALSE]
    ELSE [pc |-> "remote", remote |-> 1, result |-> Pending,
          src |-> data, session |-> sess, returned |-> FALSE]

translateAnalysisRemoteError(i, m) ==
    /\ NoMicrotask
    /\ tTask[i].pc = "remote"
    /\ tTask' = [tTask EXCEPT ![i].pc = "settled",
                              ![i].result = Reject(Error("UpstreamError", m))]
    /\ UNCHANGED <<apiKey, revoked, appVars, session, aTask, analyzeCalls, histVars>>

translateAnalysisResponse(i, p) ==
    /\ NoMicrotask
    /\ tTask[i].pc = "remote"
    /\ tTask' = [tTask EXCEPT ![i].pc = "settled",
                              ![i].result = JSONParse(p, tTask[i].src.of, "zh")]
    /\ UNCHANGED <<apiKey, revoked, appVars, session, aTask, analyzeCalls, histVars>>

\* The translateAnalysis calls issued so far, and the next one's place.
Issued == {i \in TranslateIds : tTask[i].pc # "none"}
NextTranslate == Cardinality(Issued) + 1

(***************************************************************************)
(* The application controller, src/App.tsx.                                *)
(***************************************************************************)

\* The record shown to the user.
currentAnalysis ==
    IF language = "zh" /\ Truthy(translatedData) THEN translatedData ELSE state.data

\* The revocations of a step that replaces pdfUrl: handleFileSelect revokes
\* the URL it replaces, and the cleanup of the effect keyed on pdfUrl
\* revokes it again when the new value is committed.
RevokeOnSelect ==
    IF pdfUrl # Null THEN [revoked EXCEPT ![pdfUrl.id] = @ + 2] ELSE revoked

\* handleReset leaves the revocation to the effect's cleanup.
RevokeOnReset ==
    IF pdfUrl # Null THEN [revoked EXCEPT ![pdfUrl.id] = @ + 1] ELSE revoked

\* A faulty UploadEnabled: FileUpload stays rendered beside an open document.
UploadEnabledBesideDocument == ~state.isLoading

\* FileUpload is rendered only while there is no pdfUrl, and its input is
\* disabled while loading.
UploadEnabled == pdfUrl = Null /\ ~state.isLoading

\* A faulty handleFileSelect: the translation state of the previous file
\* is not reset.
handleFileSelectKeepsTranslation ==
    /\ NoMicrotask
    /\ UploadEnabled
    /\ session < MaxSessions
    /\ session' = session + 1
    /\ pdfUrl' = ObjectUrl(session + 1)
    /\ fileName' = FileName(session + 1)
    /\ revoked' = RevokeOnSelect
    /\ state' = Loading
    /\ aTask' = [aTask EXCEPT ![session + 1] = analyzePaper(session + 1)]
    /\ analyzeCalls' = [analyzeCalls EXCEPT ![session + 1] = @ + 1]
    /\ dirtyBefore' = (Truthy(translatedData) /\ language = "zh")
    /\ lastFailure' = NoError
    /\ lastToggle' = "none"
    /\ UNCHANGED <<apiKey, translatedData, language, isTranslating, tTask>>

\* handleFileSelect up to its await.  The file and its object URL are
\* named by the session number.
handleFileSelect ==
    /\ NoMicrotask
    /\ UploadEnabled
    /\ session < MaxSessions
    /\ session' = session + 1
    /\ translatedData' = Null
    /\ language' = "en"
    /\ pdfUrl' = ObjectUrl(session + 1)
    /\ fileName' = FileName(session + 1)
    /\ revoked' = RevokeOnSelect
    /\ state' = Loading
    /\ aTask' = [aTask EXCEPT ![session + 1] = analyzePaper(session + 1)]
    /\ analyzeCalls' = [analyzeCalls EXCEPT ![session + 1] = @ + 1]
    /\ dirtyBefore' = (Truthy(translatedData) /\ language = "zh")
    /\ lastFailure' = NoError
    /\ lastToggle' = "none"
    /\ UNCHANGED <<apiKey, isTranslating, tTask>>

\* The catch block's message.
errorMessage(err) ==
    LET own == IF err.isError THEN err.message ELSE "An unexpected error occurred."
    IN  IF Includes(err.message, "API Key")
        THEN "Missing API Key. Please verify your settings."
        ELSE own

\* A faulty handleFileSelectSettled: a failed analysis is retried once.
handleFileSelectSettledRetries(s) ==
    /\ aTask[s].pc = "settled"
    /\ IF aTask[s].result.ok
       THEN /\ state' = Ready(aTask[s].result.value)
            /\ aTask' = [aTask EXCEPT ![s].pc = "done", ![s].result = Pending]
            /\ UNCHANGED analyzeCalls
       ELSE IF analyzeCalls[s] < 2 /\ apiKey
       THEN /\ aTask' = [aTask EXCEPT ![s] = analyzePaper(s)]
            /\ analyzeCalls' = [analyzeCalls EXCEPT ![s] = @ + 1]
            /\ UNCHANGED state
       ELSE /\ state' = Failed(errorMessage(aTask[s].result.err))
            /\ aTask' = [aTask EXCEPT ![s].pc = "done", ![s].result = Pending]
            /\ UNCHANGED analyzeCalls
    /\ lastFailure' = aTask[s].result.err
    /\ UNCHANGED <<apiKey, revoked, fileName, pdfUrl, translatedData, language, isTranslating,
                   session, tTask, lastToggle, dirtyBefore>>

\* A faulty handleFileSelectSettled: the result is merged into the state
\* as it is, setState(prev => ({...prev, data})).
handleFileSelectSettledMerges(s) ==
    /\ aTask[s].pc = "settled"
    /\ aTask' = [aTask EXCEPT ![s].pc = "done", ![s].result = Pending]
    /\ IF aTask[s].result.ok
       THEN /\ state' = [state EXCEPT !.data = aTask[s].result.value]
            /\ lastFailure' = NoError
       ELSE /\ state' = [state EXCEPT !.error = Str(errorMessage(aTask[s].result.err))]
            /\ lastFailure' = aTask[s].result.err
    /\ UNCHANGED <<apiKey, revoked, fileName, pdfUrl, translatedData, language, isTranslating,
                   session, tTask, analyzeCalls, lastToggle, dirtyBefore>>

\* A faulty handleFileSelectSettled: a failed analysis closes the document.
handleFileSelectSettledClosesDocument(s) ==
    /\ aTask[s].pc = "settled"
    /\ aTask' = [aTask EXCEPT ![s].pc = "done", ![s].result = Pending]
    /\ IF aTask[s].result.ok
       THEN /\ state' = Ready(aTask[s].result.value)
            /\ lastFailure' = NoError
            /\ UNCHANGED <<pdfUrl, revoked>>
       ELSE /\ state' = Failed(errorMessage(aTask[s].result.err))
            /\ lastFailure' = aTask[s].result.err
            /\ pdfUrl' = Null
            /\ revoked' = RevokeOnReset
    /\ UNCHANGED <<apiKey, fileName, translatedData, language, isTranslating,
                   session, tTask, analyzeCalls, lastToggle, dirtyBefore>>

\* handleFileSelect after its await: the try's setState, or the catch.
handleFileSelectSettled(s) ==
    /\ aTask[s].pc = "settled"
    /\ aTask' = [aTask EXCEPT ![s].pc = "done", ![s].result = Pending]
    /\ IF aTask[s].result.ok
       THEN /\ state' = Ready(aTask[s].result.value)
            /\ lastFailure' = NoError
       ELSE /\ state' = Failed(errorMessage(aTask[s].result.err))
            /\ lastFailure' = aTask[s].result.err
    /\ UNCHANGED <<apiKey, revoked, fileName, pdfUrl, translatedData, language, isTranslating,
                   session, tTask, analyzeCalls, lastToggle, dirtyBefore>>

\* Both reset buttons are rendered only while there is a pdfUrl.
handleReset ==
    /\ NoMicrotask
    /\ pdfUrl # Null
    /\ state' = Idle
    /\ fileName' = Null
    /\ pdfUrl' = Null
    /\ revoked' = RevokeOnReset
    /\ translatedData' = Null
    /\ language' = "en"
    /\ lastFailure' = NoError
    /\ lastToggle' = "none"
    /\ dirtyBefore' = FALSE
    /\ UNCHANGED <<apiKey, isTranslating, session, aTask, tTask, analyzeCalls>>

\* A faulty ToggleEnabled: the buttons are not disabled while translating.
ToggleEnabledWhileTranslating == pdfUrl # Null /\ Truthy(state.data)

\* The toggle buttons are rendered while there is a pdfUrl and state.data,
\* and are disabled while isTranslating.
ToggleEnabled == pdfUrl # Null /\ Truthy(state.data) /\ ~isTranslating

\* A faulty handleLanguageToggle: the cached translation is not consulted.
handleLanguageToggleIgnoresCache(targetLang) ==
    /\ NoMicrotask
    /\ ToggleEnabled
    /\ IF targetLang = language
       THEN /\ lastToggle' = "noop"
            /\ UNCHANGED <<language, isTranslating, tTask>>
       ELSE IF targetLang = "zh" /\ Truthy(state.data)
       THEN /\ NextTranslate <= MaxTranslate
            /\ isTranslating' = TRUE
            /\ tTask' = [tTask EXCEPT ![NextTranslate] =
                             translateAnalysis(state.data, session)]
            /\ lastToggle' = "translate"
            /\ UNCHANGED language
       ELSE /\ language' = targetLang
            /\ lastToggle' = IF targetLang = "zh" THEN "cached" ELSE "source"
            /\ UNCHANGED <<isTranslating, tTask>>
    /\ UNCHANGED <<apiKey, revoked, state, fileName, pdfUrl, translatedData, session, aTask,
                   analyzeCalls, lastFailure, dirtyBefore>>

\* handleLanguageToggle up to its await.
handleLanguageToggle(targetLang) ==
    /\ NoMicrotask
    /\ ToggleEnabled
    /\ IF targetLang = language
       THEN /\ lastToggle' = "noop"
            /\ UNCHANGED <<language, isTranslating, tTask>>
       ELSE IF targetLang = "zh" /\ ~Truthy(translatedData) /\ Truthy(state.data)
       THEN /\ NextTranslate <= MaxTranslate
            /\ isTranslating' = TRUE
            /\ tTask' = [tTask EXCEPT ![NextTranslate] =
                             translateAnalysis(state.data, session)]
            /\ lastToggle' = "translate"
            /\ UNCHANGED language
       ELSE /\ language' = targetLang
            /\ lastToggle' = IF targetLang = "zh" THEN "cached" ELSE "source"
            /\ UNCHANGED <<isTranslating, tTask>>
    /\ UNCHANGED <<apiKey, revoked, state, fileName, pdfUrl, translatedData, session, aTask,
                   analyzeCalls, lastFailure, dirtyBefore>>

\* A faulty handleLanguageToggleSettled: the result is shown but not cached.
handleLanguageToggleSettledForgets(i) ==
    /\ tTask[i].pc = "settled"
    /\ tTask' = [tTask EXCEPT ![i].pc = "done", ![i].result = Pending,
                              ![i].returned = tTask[i].result.ok
                                              /\ Truthy(tTask[i].result.value)]
    /\ IF tTask[i].result.ok
       THEN /\ language' = "zh"
            /\ lastAlert' = NoAlert
       ELSE /\ lastAlert' = TranslationFailedAlert
            /\ UNCHANGED language
    /\ isTranslating' = FALSE
    /\ UNCHANGED <<apiKey, revoked, state, fileName, pdfUrl, translatedData, session, aTask,
                   analyzeCalls, histVars>>

\* A faulty handleLanguageToggleSettled: isTranslating is cleared at the end
\* of the try block, not in a finally.
handleLanguageToggleSettledNoFinally(i) ==
    /\ tTask[i].pc = "settled"
    /\ tTask' = [tTask EXCEPT ![i].pc = "done", ![i].result = Pending,
                              ![i].returned = tTask[i].result.ok
                                              /\ Truthy(tTask[i].result.value)]
    /\ IF tTask[i].result.ok
       THEN /\ translatedData' = tTask[i].result.value
            /\ language' = "zh"
            /\ lastAlert' = NoAlert
            /\ isTranslating' = FALSE
       ELSE /\ lastAlert' = TranslationFailedAlert
            /\ UNCHANGED <<translatedData, language, isTranslating>>
    /\ UNCHANGED <<apiKey, revoked, state, fileName, pdfUrl, session, aTask, analyzeCalls,
                   histVars>>

\* handleLanguageToggle after its await: the try, the catch, the finally.
handleLanguageToggleSettled(i) ==
    /\ tTask[i].pc = "settled"
    /\ tTask' = [tTask EXCEPT ![i].pc = "done", ![i].result = Pending,
                              ![i].returned = tTask[i].result.ok
                                              /\ Truthy(tTask[i].result.value)]
    /\ IF tTask[i].result.ok
       THEN /\ translatedData' = tTask[i].result.value
            /\ language' = "zh"
            /\ lastAlert' = NoAlert
       ELSE /\ lastAlert' = TranslationFailedAlert
            /\ UNCHANGED <<translatedData, language>>
    /\ isTranslating' = FALSE
    /\ UNCHANGED <<apiKey, revoked, state, fileName, pdfUrl, session, aTask, analyzeCalls,
                   histVars>>

\* A faulty handleDrop: the type of the dropped file is not looked at.
handleDropAnyType(type) ==
    /\ handleFileSelect
    /\ fileType' = type
    /\ lastAlert' = NoAlert

\* FileUpload's handleDrop.  The drop zone is there while UploadEnabled.
handleDrop(type) ==
    /\ NoMicrotask
    /\ UploadEnabled
    /\ IF type = PdfType
       THEN /\ handleFileSelect
            /\ fileType' = type
            /\ lastAlert' = NoAlert
       ELSE /\ fileType' = ""
            /\ lastAlert' = PdfOnlyAlert
            /\ UNCHANGED <<apiKey, revoked, appVars, session, aTask, tTask, analyzeCalls,
                           histVars>>

\* FileUpload's handleChange: the file the picker returned.
handleChange(type) ==
    /\ handleFileSelect
    /\ fileType' = type
    /\ lastAlert' = NoAlert

\* App is unmounted: the cleanup of the effect keyed on pdfUrl runs.
unmountApp ==
    /\ NoMicrotask
    /\ appMounted' = FALSE
    /\ revoked' = RevokeOnReset
    /\ UNCHANGED <<apiKey, appVars, session, aTask, tTask, analyzeCalls, histVars>>

\* What a step of a mounted App leaves alone when the PdfViewer child is
\* left out.  Nothing of App runs once it is unmounted.
Hosted == appMounted /\ UNCHANGED <<appMounted, viewVars>>

\* The step hands no file to onFileSelect and raises no alert.
Silent == fileType' = "" /\ lastAlert' = NoAlert

Next ==
    \/ \E type \in FileTypes : handleDrop(type) /\ Hosted
    \/ \E type \in FileTypes : handleChange(type) /\ Hosted
    \/ appMounted /\ unmountApp /\ Silent /\ UNCHANGED viewVars
    \/ \E s \in Sessions : processFileToBase64Resolve(s) /\ Hosted /\ Silent
    \/ \E s \in Sessions : processFileToBase64Reject(s) /\ Hosted /\ Silent
    \/ \E s \in Sessions, m \in UpstreamMessages : analyzePaperRemoteError(s, m) /\ Hosted /\ Silent
    \/ \E s \in Sessions, p \in Payloads : analyzePaperResponse(s, p) /\ Hosted /\ Silent
    \/ \E s \in Sessions : handleFileSelectSettled(s) /\ Hosted /\ Silent
    \/ handleReset /\ Hosted /\ Silent
    \/ \E targetLang \in {"en", "zh"} : handleLanguageToggle(targetLang) /\ Hosted /\ Silent
    \/ \E i \in TranslateIds, m \in UpstreamMessages : translateAnalysisRemoteError(i, m) /\ Hosted /\ Silent
    \/ \E i \in TranslateIds, p \in Payloads : translateAnalysisResponse(i, p) /\ Hosted /\ Silent
    \/ \E i \in TranslateIds : handleLanguageToggleSettled(i) /\ Hosted /\ fileType' = ""

Spec == Init /\ [][Next]_vars

(***************************************************************************)
(* The analysis client on its own: a caller that invokes the two exported  *)
(* functions with any file and any record, and awaits them.                *)
(***************************************************************************)
ClientRecords == {Obj(RequiredFields, 1, "en")}

clientAnalyze(s) ==
    /\ NoMicrotask
    /\ aTask[s].pc = "none"
    /\ aTask' = [aTask EXCEPT ![s] = analyzePaper(s)]
    /\ analyzeCalls' = [analyzeCalls EXCEPT ![s] = @ + 1]
    /\ UNCHANGED <<apiKey, revoked, appVars, session, tTask, histVars>>

clientTranslate(data) ==
    /\ NoMicrotask
    /\ NextTranslate <= MaxTranslate
    /\ tTask' = [tTask EXCEPT ![NextTranslate] = translateAnalysis(data, 0)]
    /\ UNCHANGED <<apiKey, revoked, appVars, session, aTask, analyzeCalls, histVars>>

clientAwaitAnalyze(s) ==
    /\ aTask[s].pc = "settled"
    /\ aTask' = [aTask EXCEPT ![s].pc = "done", ![s].result = Pending]
    /\ UNCHANGED <<apiKey, revoked, appVars, session, tTask, analyzeCalls, histVars>>

clientAwaitTranslate(i) ==
    /\ tTask[i].pc = "settled"
    /\ tTask' = [tTask EXCEPT ![i].pc = "done", ![i].result = Pending,
                              ![i].returned = tTask[i].result.ok
                                              /\ Truthy(tTask[i].result.value)]
    /\ UNCHANGED <<apiKey, revoked, appVars, session, aTask, analyzeCalls, histVars>>

ClientNext ==
    \/ \E s \in Sessions : clientAnalyze(s) /\ Hosted /\ Silent
    \/ \E data \in ClientRecords : clientTranslate(data) /\ Hosted /\ Silent
    \/ \E s \in Sessions : processFileToBase64Resolve(s) /\ Hosted /\ Silent
    \/ \E s \in Sessions : processFileToBase64Reject(s) /\ Hosted /\ Silent
    \/ \E s \in Sessions, m \in UpstreamMessages : analyzePaperRemoteError(s, m) /\ Hosted /\ Silent
    \/ \E s \in Sessions, p \in Payloads : analyzePaperResponse(s, p) /\ Hosted /\ Silent
    \/ \E i \in TranslateIds, m \in UpstreamMessages : translateAnalysisRemoteError(i, m) /\ Hosted /\ Silent
    \/ \E i \in TranslateIds, p \in Payloads : translateAnalysisResponse(i, p) /\ Hosted /\ Silent
    \/ \E s \in Sessions : clientAwaitAnalyze(s) /\ Hosted /\ Silent
    \/ \E i \in TranslateIds : clientAwaitTranslate(i) /\ Hosted /\ Silent

ClientSpec == Init /\ [][ClientNext]_vars

(***************************************************************************)
(* The viewer, src/components/PdfViewer.tsx, mounted with a url by a host  *)
(* that is left out.  A handler sets the component's state; the effects    *)
(* that React runs after rendering that state are Effects.  A click        *)
(* handler runs on a viewer that has rendered its latest state, and React  *)
(* renders and runs the effects before the click returns.  State set by a  *)
(* wheel listener or by the continuation of a promise is rendered in a     *)
(* later step, rerender; until then the wheel listener registered by the   *)
(* last render stays in place.                                             *)
(***************************************************************************)
hostVars ==
    <<apiKey, state, fileName, pdfUrl, revoked, translatedData, language,
      isTranslating, session, aTask, tTask, analyzeCalls, lastFailure, lastToggle, dirtyBefore,
      appMounted, fileType, lastAlert>>

Min(a, b) == IF a < b THEN a ELSE b
Max(a, b) == IF a > b THEN a ELSE b
Abs(a) == IF a < 0 THEN 0 - a ELSE a

DigitChars == <<"0", "1", "2", "3", "4", "5", "6", "7", "8", "9">>
IsDigit(c) == \E d \in 1..10 : DigitChars[d] = c
DigitOf(c) == (CHOOSE d \in 1..10 : DigitChars[d] = c) - 1

\* Number.prototype.toString of an integer.
RECURSIVE toString(_)
toString(n) ==
    IF n < 0 THEN "-" \o toString(-n)
    ELSE IF n < 10 THEN DigitChars[n + 1]
    ELSE toString(n \div 10) \o DigitChars[(n % 10) + 1]

\* The numbers parseInt returns.
Number(n) == [tag |-> "number", value |-> n]
NaN == [tag |-> "NaN"]
isNaN(p) == p = NaN

\* The value of the digits s starts with, after the digits worth acc.
RECURSIVE parseDigits(_, _)
parseDigits(s, acc) ==
    IF s = "" \/ ~IsDigit(SubSeq(s, 1, 1))
    THEN acc
    ELSE parseDigits(SubSeq(s, 2, Len(s)), 10 * acc + DigitOf(SubSeq(s, 1, 1)))

\* parseInt of a string without leading blanks: an optional sign and the
\* digits that follow it; what comes after the digits is ignored.
parseInt(s) ==
    LET negative == s # "" /\ SubSeq(s, 1, 1) = "-"
        digits == IF negative THEN SubSeq(s, 2, Len(s)) ELSE s
    IN  IF digits = "" \/ ~IsDigit(SubSeq(digits, 1, 1))
        THEN NaN
        ELSE Number(IF negative THEN 0 - parseDigits(digits, 0)
                                    ELSE parseDigits(digits, 0))

\* What a user types into the page field.
TypedInputs == {"2", "9", "2x", "x"}

\* The scales of the viewers a run starts from.
StartScales == {MinScale, InitialScale, MaxScale}

\* A renderPage call that has returned.
Over(call, outcome) ==
    [call EXCEPT !.pc = "done", !.page = 0, !.scale = 0, !.outcome = outcome]

\* The viewer has rendered its latest state.
Committed == rendered = Rendering

NextRender == Cardinality({i \in RenderIds : rCall[i].pc # "none"}) + 1

\* No renderPage call is under way.
Quiescent == \A i \in RenderIds : rCall[i].pc \in {"none", "done"}

\* The viewer as mounted: loadPdf has called getDocument, renderPage has
\* returned at once for want of a document.
Mounted ==
    /\ url = ObjectUrl(1)
    /\ pdfDoc = Null
    /\ pageNum = 1
    /\ pageInput = "1"
    /\ numPages = 0
    /\ scale = InitialScale
    /\ isLoading = TRUE
    /\ loadTask = "loading"
    /\ rendered = Rendering
    /\ rCall = [i \in RenderIds |-> NoCall]
    /\ renderTaskRef = 0
    /\ canvas = NoCanvas
    /\ liveDocs = 0
    /\ lastEvent = "none"

\* A viewer some way into its life: a document of n pages is open at page p
\* and scale z, and the render of that page has completed.
Opened(n, p, z) ==
    /\ url = ObjectUrl(1)
    /\ pdfDoc = Doc(n)
    /\ pageNum = p
    /\ pageInput = toString(p)
    /\ numPages = n
    /\ scale = z
    /\ isLoading = FALSE
    /\ loadTask = "done"
    /\ rendered = Rendering
    /\ rCall = [i \in RenderIds |->
                   IF i = 1
                   THEN Over(NoCall, "ok")
                   ELSE NoCall]
    /\ renderTaskRef = 1
    /\ canvas = [size |-> Viewport(p, z), shows |-> Bitmap(p, z), painter |-> 0]
    /\ liveDocs = 1
    /\ lastEvent = "none"

ViewerInit ==
    /\ AppInit
    /\ apiKey
    /\ Mounted

\* loadPdf after its await, getDocument resolved with a document of n pages.
loadPdfResolve(n) ==
    /\ loadTask = "loading"
    /\ loadTask' = "done"
    /\ pdfDoc' = Doc(n)
    /\ numPages' = n
    /\ pageNum' = 1
    /\ pageInput' = "1"
    /\ scale' = InitialScale
    /\ isLoading' = FALSE
    /\ lastEvent' = "none"
    /\ UNCHANGED url

\* The document loadPdfResolve got is one more open document: loadPdf keeps
\* it in pdfDoc, and nothing in the component calls destroy().
Opens == liveDocs' = liveDocs + 1

\* loadPdf after its await, getDocument rejected: the catch logs, the
\* finally clears isLoading.
loadPdfReject ==
    /\ loadTask = "loading"
    /\ loadTask' = "failed"
    /\ isLoading' = FALSE
    /\ lastEvent' = "none"
    /\ UNCHANGED <<url, liveDocs, pdfDoc, pageNum, pageInput, numPages, scale>>

\* renderPage up to its await of getPage, called by the render effect with
\* the state being rendered.  cancel() of a task that is drawing stops it
\* and frees the canvas, and the task's promise rejects with
\* RenderingCancelledException, which the catch of the call that awaits it
\* swallows; cancel() of a task that is over does nothing.
renderPage ==
    IF pdfDoc' = Null
    THEN UNCHANGED <<rCall, renderTaskRef, canvas>>
    ELSE LET drawing == renderTaskRef # 0 /\ rCall[renderTaskRef].pc = "rendering"
         IN  /\ NextRender <= MaxRenders
             /\ rCall' =
                  [i \in RenderIds |->
                     IF i = NextRender
                     THEN [NoCall EXCEPT !.pc = "getPage", !.page = pageNum',
                                         !.scale = scale']
                     ELSE IF drawing /\ i = renderTaskRef
                     THEN Over([rCall[i] EXCEPT !.superseded = TRUE], "cancelled")
                     ELSE IF rCall[i].pc \in {"getPage", "rendering"}
                     THEN [rCall[i] EXCEPT !.superseded = TRUE]
                     ELSE rCall[i]]
             /\ canvas' = IF drawing
                          THEN [canvas EXCEPT !.shows = Partial, !.painter = 0]
                          ELSE canvas
             /\ UNCHANGED renderTaskRef

\* renderPage when pdf.js settles its promises before anything else
\* happens and the render task completes: the call is over within the step.
renderPageSettled ==
    /\ canvas' = IF pdfDoc' # Null /\ pageNum' \in 1..pdfDoc'.numPages
                 THEN [size |-> Viewport(pageNum', scale'),
                       shows |-> Bitmap(pageNum', scale'), painter |-> 0]
                 ELSE canvas
    /\ UNCHANGED <<rCall, renderTaskRef>>

\* The render effect's dependencies changed since the last render.
RenderDue ==
    <<pdfDoc', pageNum', scale'>> # <<rendered.pdfDoc, rendered.pageNum, rendered.scale>>

\* React renders the state as set and runs the effects whose dependencies
\* changed: the render effect, and the effect that registers the wheel
\* listener.
Effects ==
    /\ IF RenderDue THEN renderPage ELSE UNCHANGED <<rCall, renderTaskRef, canvas>>
    /\ rendered' = Rendering'

\* The same when every renderPage call is over before the next event.
EffectsSettled ==
    /\ IF RenderDue THEN renderPageSettled ELSE UNCHANGED <<rCall, renderTaskRef, canvas>>
    /\ rendered' = Rendering'

\* The step sets state that React has yet to render.
NoEffects == UNCHANGED <<rendered, rCall, renderTaskRef, canvas>>

\* pageInput after the effect that copies pageNum into it, input being
\* pageInput as the handler left it.
SyncedInput(input) == IF pageNum' # rendered.pageNum THEN toString(pageNum') ELSE input

rerender ==
    /\ url # Null
    /\ ~Committed
    /\ lastEvent' = "none"
    /\ UNCHANGED <<url, liveDocs, pdfDoc, pageNum, numPages, scale, isLoading, loadTask>>
    /\ pageInput' = SyncedInput(pageInput)

\* renderPage after its await of getPage.  A page the document does not
\* have rejects, and the catch logs.  Otherwise the canvas is sized, which
\* clears it, page.render is called and its task is put in renderTaskRef;
\* pdf.js rejects a task whose canvas another task is drawing on ("Cannot
\* use the same canvas during multiple render() operations"), and the catch
\* logs that too.
getPageSettled(i) ==
    /\ rCall[i].pc = "getPage"
    /\ IF rCall[i].page \notin 1..pdfDoc.numPages
       THEN /\ rCall' = [rCall EXCEPT ![i] = Over(@, "error")]
            /\ lastEvent' = "renderError"
            /\ UNCHANGED <<renderTaskRef, canvas>>
       ELSE /\ renderTaskRef' = i
            /\ lastEvent' = IF \E j \in RenderIds : rCall[j].pc = "rendering"
                            THEN "renderError" ELSE "none"
            /\ IF \E j \in RenderIds : rCall[j].pc = "rendering"
               THEN /\ rCall' = [rCall EXCEPT ![i] = Over(@, "conflict")]
                    /\ canvas' = [canvas EXCEPT
                                     !.size = Viewport(rCall[i].page, rCall[i].scale),
                                     !.shows = Blank, !.painter = 0]
               ELSE /\ rCall' = [rCall EXCEPT ![i].pc = "rendering"]
                    /\ canvas' = [canvas EXCEPT
                                     !.size = Viewport(rCall[i].page, rCall[i].scale),
                                     !.shows = Blank, !.painter = i]
    /\ UNCHANGED <<url, liveDocs, pdfDoc, pageNum, pageInput, numPages, scale, isLoading, loadTask,
                   rendered>>

\* renderPage after its await of the render task, the task completed: the
\* page is drawn, on the canvas as the task found it unless the canvas was
\* sized again under it.
renderTaskCompleted(i) ==
    /\ rCall[i].pc = "rendering"
    /\ lastEvent' = "none"
    /\ rCall' = [rCall EXCEPT ![i] = Over(@, "ok")]
    /\ canvas' = IF canvas.painter = i
                 THEN [canvas EXCEPT !.shows = Bitmap(rCall[i].page, rCall[i].scale),
                                     !.painter = 0]
                 ELSE [canvas EXCEPT !.shows = Partial]
    /\ UNCHANGED <<url, liveDocs, pdfDoc, pageNum, pageInput, numPages, scale, isLoading, loadTask,
                   rendered, renderTaskRef>>

\* renderPage after its await of the render task, the task rejected with an
\* error of the page's content: the catch logs.
renderTaskFailed(i) ==
    /\ rCall[i].pc = "rendering"
    /\ lastEvent' = "renderError"
    /\ rCall' = [rCall EXCEPT ![i] = Over(@, "error")]
    /\ canvas' = [canvas EXCEPT !.shows = Partial, !.painter = 0]
    /\ UNCHANGED <<url, liveDocs, pdfDoc, pageNum, pageInput, numPages, scale, isLoading, loadTask,
                   rendered, renderTaskRef>>

\* The previous and next buttons; each is disabled at its end of the
\* document.
changePage(delta) ==
    /\ url # Null
    /\ Committed
    /\ IF delta < 0 THEN pageNum > 1 ELSE pageNum < numPages
    /\ pageNum' = Min(Max(1, pageNum + delta), numPages)
    /\ lastEvent' = "none"
    /\ pageInput' = SyncedInput(pageInput)
    /\ UNCHANGED <<url, liveDocs, pdfDoc, numPages, scale, isLoading, loadTask>>

\* The page field's onChange.
setPageInput(text) ==
    /\ url # Null
    /\ Committed
    /\ pageInput # text
    /\ pageInput' = text
    /\ lastEvent' = "none"
    /\ UNCHANGED <<url, liveDocs, pdfDoc, pageNum, numPages, scale, isLoading, loadTask>>

handlePageSubmit ==
    /\ url # Null
    /\ Committed
    /\ lastEvent' = "none"
    /\ LET p == parseInt(pageInput)
       IN  IF ~isNaN(p) /\ p.value >= 1 /\ p.value <= numPages
           THEN /\ pageNum' = p.value
                /\ pageInput' = SyncedInput(pageInput)
           ELSE /\ pageNum' = pageNum
                /\ pageInput' = toString(pageNum)
    /\ UNCHANGED <<url, liveDocs, pdfDoc, numPages, scale, isLoading, loadTask>>

\* A faulty clampScale: no limit.
clampScaleUnlimited(newScale) == newScale

\* The updater handleZoom passes to setScale.
clampScale(newScale) == Min(Max(MinScale, newScale), MaxScale)

\* The zoom buttons.
handleZoom(delta) ==
    /\ url # Null
    /\ Committed
    /\ scale' = clampScale(scale + delta)
    /\ lastEvent' = IF scale + delta \notin MinScale..MaxScale THEN "zoomAtBound" ELSE "none"
    /\ UNCHANGED <<url, liveDocs, pdfDoc, pageNum, pageInput, numPages, isLoading, loadTask>>

\* The wheel listener the last render registered: its pageNum, numPages and
\* isLoading are those of that render, its updaters act on the state as it
\* is.  isAtTop and isAtBottom are what the listener reads off the scroll
\* container.  MaxBurst wheel events are followed before the next render.
onWheel(ctrlKey, deltaY, isAtTop, isAtBottom) ==
    /\ url # Null
    /\ IF ctrlKey
       THEN /\ scale' = IF deltaY < 0 THEN Min(scale + ZoomStep, MaxScale)
                                     ELSE Max(scale - ZoomStep, MinScale)
            /\ lastEvent' = IF scale' = scale THEN "zoomAtBound" ELSE "none"
            /\ UNCHANGED pageNum
       ELSE /\ lastEvent' = "none"
            /\ ~rendered.isLoading
            /\ \/ /\ deltaY > 0 /\ isAtBottom
                  /\ rendered.pageNum < rendered.numPages
                  /\ pageNum' = pageNum + 1
               \/ /\ deltaY < 0 /\ isAtTop
                  /\ ~(deltaY > 0 /\ isAtBottom)
                  /\ rendered.pageNum > 1
                  /\ pageNum' = pageNum - 1
            /\ UNCHANGED scale
    /\ Abs(pageNum' - rendered.pageNum) + Abs(scale' - rendered.scale) <= MaxBurst
    /\ UNCHANGED <<url, liveDocs, pdfDoc, pageInput, numPages, isLoading, loadTask>>

\* The viewer's state and handlers, every renderPage call being over before
\* the next event.
ViewerNext ==
    \/ \E n \in 1..MaxPages : loadPdfResolve(n) /\ Opens /\ NoEffects /\ UNCHANGED hostVars
    \/ loadPdfReject /\ NoEffects /\ UNCHANGED hostVars
    \/ rerender /\ EffectsSettled /\ UNCHANGED hostVars
    \/ \E delta \in {-1, 1} : changePage(delta) /\ EffectsSettled /\ UNCHANGED hostVars
    \/ \E text \in TypedInputs : setPageInput(text) /\ NoEffects /\ UNCHANGED hostVars
    \/ handlePageSubmit /\ EffectsSettled /\ UNCHANGED hostVars
    \/ \E delta \in {0 - ZoomStep, ZoomStep} :
           handleZoom(delta) /\ EffectsSettled /\ UNCHANGED hostVars
    \/ \E ctrlKey \in BOOLEAN, deltaY \in {-1, 1}, isAtTop \in BOOLEAN, isAtBottom \in BOOLEAN :
           onWheel(ctrlKey, deltaY, isAtTop, isAtBottom) /\ NoEffects /\ UNCHANGED hostVars

ViewerSpec == ViewerInit /\ [][ViewerNext]_vars

\* The renderPage calls of a viewer driven by its buttons, pdf.js settling
\* its promises in any order.
RenderInit ==
    /\ AppInit
    /\ apiKey
    /\ \/ Mounted
       \/ \E n \in 1..MaxPages, p \in 1..MaxPages, z \in StartScales :
              p <= n /\ Opened(n, p, z)

RenderNext ==
    \/ \E n \in 1..MaxPages : loadPdfResolve(n) /\ Opens /\ NoEffects /\ UNCHANGED hostVars
    \/ loadPdfReject /\ NoEffects /\ UNCHANGED hostVars
    \/ rerender /\ Effects /\ UNCHANGED hostVars
    \/ \E delta \in {-1, 1} : changePage(delta) /\ Effects /\ UNCHANGED hostVars
    \/ \E delta \in {0 - ZoomStep, ZoomStep} :
           handleZoom(delta) /\ Effects /\ UNCHANGED hostVars
    \/ \E i \in RenderIds : getPageSettled(i) /\ UNCHANGED hostVars
    \/ \E i \in RenderIds : renderTaskCompleted(i) /\ UNCHANGED hostVars
    \/ \E i \in RenderIds : renderTaskFailed(i) /\ UNCHANGED hostVars

RenderSpec == RenderInit /\ [][RenderNext]_vars

(***************************************************************************)
(* App with its PdfViewer child: <PdfViewer url={pdfUrl} /> is rendered    *)
(* while there is a pdfUrl.  The language toggle is left out, and every    *)
(* renderPage call is over before the next event.                          *)
(***************************************************************************)
\* React mounts a new PdfViewer for the url u, or with Null unmounts the one
\* there is; state set by what an unmounted viewer still awaits is dropped.
\* No effect of PdfViewer has a cleanup: the document the unmounted viewer
\* opened is left as it is.
mountViewer(u) ==
    /\ url' = u
    /\ pdfDoc' = Null
    /\ pageNum' = 1
    /\ pageInput' = "1"
    /\ numPages' = 0
    /\ scale' = InitialScale
    /\ isLoading' = TRUE
    /\ loadTask' = IF u = Null THEN "none" ELSE "loading"
    /\ rendered' = [pdfDoc |-> Null, pageNum |-> 1, numPages |-> 0, scale |-> InitialScale,
                    isLoading |-> TRUE]
    /\ rCall' = [i \in RenderIds |-> NoCall]
    /\ renderTaskRef' = 0
    /\ canvas' = NoCanvas
    /\ UNCHANGED liveDocs
    /\ lastEvent' = "none"

\* What a step of App does to its PdfViewer child.
Previewed ==
    /\ appMounted
    /\ UNCHANGED appMounted
    /\ IF pdfUrl' = pdfUrl THEN UNCHANGED viewVars ELSE mountViewer(pdfUrl')

PreviewNext ==
    \/ \E type \in FileTypes : handleChange(type) /\ Previewed
    \/ \E s \in Sessions : processFileToBase64Resolve(s) /\ Previewed /\ Silent
    \/ \E s \in Sessions : processFileToBase64Reject(s) /\ Previewed /\ Silent
    \/ \E s \in Sessions, m \in UpstreamMessages :
           analyzePaperRemoteError(s, m) /\ Previewed /\ Silent
    \/ \E s \in Sessions, p \in Payloads : analyzePaperResponse(s, p) /\ Previewed /\ Silent
    \/ \E s \in Sessions : handleFileSelectSettled(s) /\ Previewed /\ Silent
    \/ handleReset /\ Previewed /\ Silent
    \/ \E n \in 1..MaxPages :
           loadPdfResolve(n) /\ UNCHANGED liveDocs /\ NoEffects /\ UNCHANGED hostVars
    \/ loadPdfReject /\ NoEffects /\ UNCHANGED hostVars
    \/ rerender /\ EffectsSettled /\ UNCHANGED hostVars
    \/ \E delta \in {-1, 1} : changePage(delta) /\ EffectsSettled /\ UNCHANGED hostVars
    \/ \E delta \in {0 - ZoomStep, ZoomStep} :
           handleZoom(delta) /\ EffectsSettled /\ UNCHANGED hostVars

PreviewSpec == Init /\ [][PreviewNext]_vars

\* App opening and closing documents in its PdfViewer child, the open
\* documents counted; the viewer's buttons are left out.
OpenNext ==
    \/ \E type \in FileTypes : handleChange(type) /\ Previewed
    \/ \E s \in Sessions : processFileToBase64Resolve(s) /\ Previewed /\ Silent
    \/ \E s \in Sessions : processFileToBase64Reject(s) /\ Previewed /\ Silent
    \/ \E s \in Sessions, m \in UpstreamMessages :
           analyzePaperRemoteError(s, m) /\ Previewed /\ Silent
    \/ \E s \in Sessions, p \in Payloads : analyzePaperResponse(s, p) /\ Previewed /\ Silent
    \/ \E s \in Sessions : handleFileSelectSettled(s) /\ Previewed /\ Silent
    \/ handleReset /\ Previewed /\ Silent
    \/ \E n \in 1..MaxPages : loadPdfResolve(n) /\ Opens /\ NoEffects /\ UNCHANGED hostVars
    \/ loadPdfReject /\ NoEffects /\ UNCHANGED hostVars
    \/ rerender /\ EffectsSettled /\ UNCHANGED hostVars

OpenSpec == Init /\ [][OpenNext]_vars

(***************************************************************************)
(* Properties.                                                             *)
(***************************************************************************)

\* The translateAnalysis calls issued while file s was the selected file.
TranslateCallsIn(s) == {i \in Issued : tTask[i].session = s}

\* The translateAnalysis calls whose request has not settled, or whose
\* continuation has not run yet.
TranslateInFlight == {i \in TranslateIds : tTask[i].pc \in {"remote", "settled"}}

\* C1: analyze is invoked exactly once for every file selected and never
\* otherwise: whatever reset, toggle and completion steps were taken, every
\* file selected so far has one analyzePaper call and no other file has any.
C1_AnalyzeOncePerFile ==
    \A s \in Sessions : analyzeCalls[s] = IF s <= session THEN 1 ELSE 0

\* C1 witness: two files were selected, with a reset and a translation of
\* the first between them, and each has its one call.
C1_Witness ==
    /\ session = 2
    /\ analyzeCalls[1] = 1 /\ analyzeCalls[2] = 1
    /\ aTask[1].pc = "done" /\ aTask[2].pc = "done"
    /\ TranslateCallsIn(1) # {}

\* C2 as stated: at most one translateAnalysis call is issued for a
\* session's record, also when a call fails and the user toggles again.
C2_AtMostOneTranslateCall ==
    \A s \in Sessions : Cardinality(TranslateCallsIn(s)) <= 1

\* C2 as amended: within one session at most one translateAnalysis call
\* returns a record, and while a translation is cached no call is in flight;
\* a call that failed or returned no record may be followed by another.
C2_AtMostOneTranslateReturns ==
    /\ \A s \in Sessions :
          Cardinality({i \in TranslateCallsIn(s) :
                          \/ tTask[i].returned
                          \/ tTask[i].result.ok /\ Truthy(tTask[i].result.value)}) <= 1
    /\ Truthy(translatedData) => TranslateInFlight = {}

\* C2 witness: a call of the session failed, a second one was issued for the
\* same record and returned the translation that is now cached.
C2_Witness ==
    \E i, j \in TranslateCallsIn(session) :
        /\ i < j
        /\ tTask[i].pc = "done" /\ ~tTask[i].returned
        /\ tTask[j].pc = "done" /\ tTask[j].returned
        /\ tTask[i].src = tTask[j].src
        /\ Truthy(translatedData)

\* C3: at most one translate request is in flight in every reachable state.
C3_SingleFlight == Cardinality(TranslateInFlight) <= 1

\* C3 witness: a request issued for the first file is still in flight after
\* a reset and the selection of a second file whose analysis is shown; the
\* toggle is rendered and disabled.
C3_Witness ==
    \E i \in TranslateIds :
        /\ tTask[i].pc = "remote"
        /\ tTask[i].session = 1 /\ session = 2
        /\ pdfUrl # Null /\ Truthy(state.data)
        /\ isTranslating

\* C4: toggling to a cached translation performs no remote call: a step
\* taken while a translation is cached issues no translateAnalysis call, a
\* toggle to the source language never issues one, and the toggle to the
\* target language with a cached translation switches the language at once.
C4_CachedToggleNoCall ==
    [][/\ Truthy(translatedData) => Issued' = Issued
       /\ handleLanguageToggle("en") => Issued' = Issued
       /\ (Truthy(translatedData) /\ handleLanguageToggle("zh")) => language' = "zh"]_vars

\* C4 witness: after the one call of the session returned, the user toggled
\* back to the source and again to the target, served from the cache.
C4_Witness ==
    /\ lastToggle = "cached"
    /\ language = "zh"
    /\ Truthy(translatedData)
    /\ Cardinality(TranslateCallsIn(session)) = 1

\* C5 as stated: whenever the target language is active, a translation is
\* cached.
C5_TargetImpliesTranslated == language = "zh" => Truthy(translatedData)

\* C6: selectFile empties the translation cache, makes the source language
\* active and enters Loading with no data and no error, whatever it found.
C6_SelectFileResets ==
    [][session' # session =>
          /\ translatedData' = Null
          /\ language' = "en"
          /\ state' = Loading]_vars

\* C6 witness: the second file was just selected in a state that held a
\* cached translation with the target language active.
C6_Witness ==
    /\ session = 2
    /\ dirtyBefore
    /\ aTask[2].pc = "reading"
    /\ state = Loading /\ translatedData = Null /\ language = "en"

\* C7 as stated: from a reset until the next selectFile (while there is no
\* preview URL) there is no file name, the analysis state is idle, the
\* translation cache is empty and the source language is active.
C7_NoDocumentIsClean ==
    pdfUrl = Null =>
        /\ fileName = Null
        /\ state = Idle
        /\ translatedData = Null
        /\ language = "en"

\* The client has started no file read and no remote request.
NothingSent ==
    /\ \A s \in Sessions : aTask[s].reads = 0 /\ aTask[s].remote = 0
    /\ \A i \in TranslateIds : tTask[i].remote = 0

\* C8: with no credential, analyze and translate fail at once with
\* MissingCredential: every call is settled when it returns, rejected with
\* that kind, and no file is read and no remote request is made.
C8_MissingCredentialFirst ==
    ~apiKey =>
        /\ NothingSent
        /\ \A s \in Sessions :
              /\ aTask[s].pc \in {"none", "settled", "done"}
              /\ aTask[s].pc = "settled" => aTask[s].result = Reject(MissingKeyAnalyze)
        /\ \A i \in TranslateIds :
              /\ tTask[i].pc \in {"none", "settled", "done"}
              /\ tTask[i].pc = "settled" => tTask[i].result = Reject(MissingKeyTranslate)

\* C8 witness: with no credential an analyze call has failed and a
\* translate call has just been rejected.
C8_Witness ==
    /\ ~apiKey
    /\ analyzeCalls[1] = 1 /\ aTask[1].pc = "done"
    /\ tTask[1].pc = "settled"
    /\ tTask[1].result.err.kind = "MissingCredential"

\* C9 as stated: the reason shown for a failed analysis is the failure's
\* own message, replaced by the missing-credential message exactly when the
\* failure's kind is MissingCredential.
C9_SpecialMessageIffMissingCredential ==
    (Truthy(state.error) /\ lastFailure.isError) =>
        state.error = Str(IF lastFailure.kind = "MissingCredential"
                          THEN "Missing API Key. Please verify your settings."
                          ELSE lastFailure.message)

\* C10 as stated: a record held by the controller, as the analysis or as
\* the cached translation, has all five required fields.
C10_RecordsHaveAllFields ==
    /\ Truthy(state.data) => state.data.fields = RequiredFields
    /\ Truthy(translatedData) => translatedData.fields = RequiredFields

\* The outcomes of a renderPage call that did not complete.
Stopped == {"cancelled", "conflict", "error"}

\* C11: once every renderPage call is over, none of them having failed on
\* the page's content, the canvas shows the page and scale of the latest
\* call, and no call that a later one superseded has drawn its page.
C11_LatestRenderWins ==
    (/\ pdfDoc # Null
     /\ Committed
     /\ Quiescent
     /\ \A i \in RenderIds : rCall[i].outcome # "error")
    => /\ canvas.shows = Bitmap(pageNum, scale)
       /\ canvas.size = Viewport(pageNum, scale)
       /\ \A i \in RenderIds : rCall[i].superseded => rCall[i].outcome # "ok"

\* C12: while a document is open the page number is one of its pages.
C12_PageInRange == pdfDoc # Null => pageNum \in 1..numPages

\* C13: the scale is between 0.5 and 3.0, and so is the scale of every
\* render; a zoom step taken at a bound leaves the scale at a bound.
C13_ScaleClamped ==
    /\ scale \in MinScale..MaxScale
    /\ rendered.scale \in MinScale..MaxScale
    /\ lastEvent = "zoomAtBound" => scale \in {MinScale, MaxScale}

\* A zoom-in step was taken at 3.0 on an open document.
C13_Witness ==
    /\ pdfDoc # Null
    /\ lastEvent = "zoomAtBound"
    /\ scale = MaxScale


\* C14: a drop of a file that is not a PDF raises the alert, hands no file
\* to onFileSelect and leaves the analysis state, the URL, the file name,
\* the translation, the language and the analysis calls as they were.
C14_NonPdfDropRejected ==
    [][\A type \in FileTypes \ {PdfType} :
          handleDrop(type) =>
              /\ lastAlert' = PdfOnlyAlert
              /\ fileType' = ""
              /\ ~state'.isLoading
              /\ UNCHANGED <<appVars, session, aTask, analyzeCalls>>]_vars

\* A document was opened and closed, and a file that is not a PDF was then
\* dropped.
C14_Witness ==
    /\ lastAlert = PdfOnlyAlert
    /\ session = 1
    /\ pdfUrl = Null
    /\ state = Idle

\* C15: every file handed to onFileSelect, by the picker or by a drop, has
\* the type application/pdf.
C15_OnlyPdfSelected == fileType \in {"", PdfType}

\* C16: an object URL is revoked once when its document is replaced or
\* closed or App is unmounted, and is not revoked before that or again.
C16_ReleasedExactlyOnce ==
    \A s \in Sessions :
        revoked[s] = IF s <= session /\ (pdfUrl # ObjectUrl(s) \/ ~appMounted)
                     THEN 1 ELSE 0

\* One document was closed by the reset button and a second one was open
\* when App was unmounted.
C16_Witness ==
    /\ ~appMounted
    /\ session = 2
    /\ pdfUrl = ObjectUrl(2)
    /\ revoked[1] = 1
    /\ revoked[2] = 1

\* C17: the continuation of a translate call leaves the analysis state
\* alone and clears isTranslating; after a failure the language is still
\* "en", there is still no cached translation and the alert was raised.
\* isTranslating is only ever set while a translate call is under way.
C17_TranslateFailureKeepsPrimary ==
    /\ [][\A i \in TranslateIds :
             handleLanguageToggleSettled(i) =>
                 /\ state' = state
                 /\ ~isTranslating'
                 /\ ~tTask[i].result.ok =>
                        /\ language = "en" /\ language' = "en"
                        /\ translatedData = Null /\ translatedData' = Null
                        /\ currentAnalysis' = state.data
                        /\ lastAlert' = TranslationFailedAlert]_vars
    /\ [](isTranslating => TranslateInFlight # {})

\* A translate call of the open document has just failed.
C17_Witness ==
    /\ lastAlert = TranslationFailedAlert
    /\ pdfUrl # Null
    /\ Truthy(state.data)
    /\ currentAnalysis = state.data
    /\ ~isTranslating

\* C19: data and error are set only by a step that starts in the loading
\* state.
C19_ReadyFailedOnlyFromLoading ==
    [][(state' # state /\ (Truthy(state'.data) \/ Truthy(state'.error)))
          => state.isLoading]_vars

\* C20: while no render task is drawing, a renderPage call that did not
\* complete has left the canvas as it was: never sized, or showing the
\* whole page of the task that completed last, in that page's size.
C20_StoppedRenderLeavesSurface ==
    (/\ \A i \in RenderIds : rCall[i].pc # "rendering"
     /\ \E i \in RenderIds : rCall[i].outcome \in Stopped)
    => \/ canvas = NoCanvas
       \/ /\ canvas.shows.tag = "bitmap"
          /\ canvas.size = Viewport(canvas.shows.page, canvas.shows.scale)

\* The error element of the application: App renders a panel for
\* state.error beside the viewer; the JSX of PdfViewer has the toolbar, the
\* loading overlay and the canvas, and nothing for an error.
ErrorVisible == Truthy(state.error)

\* C21: the step in which a renderPage call ends cancelled logs nothing and
\* shows no error; the step in which a call ends with any other failure
\* gives the error to console.error and leaves an error on screen.
C21_RenderFailureVisible ==
    [][\A i \in RenderIds :
          /\ (rCall[i].outcome = "none" /\ rCall'[i].outcome = "cancelled") =>
                 /\ lastEvent' # "renderError"
                 /\ ~ErrorVisible'
          /\ (rCall[i].outcome = "none" /\ rCall'[i].outcome \in {"conflict", "error"}) =>
                 /\ lastEvent' = "renderError"
                 /\ ErrorVisible']_vars

\* A string of decimal digits.
IsDigits(s) == s # "" /\ \A k \in 1..Len(s) : IsDigit(SubSeq(s, k, k))

\* C22: submitting the page field sets the page to the number typed when
\* the text is a string of digits whose value is a page of the document;
\* any other text leaves the page as it is and puts the page back into
\* the field.
C22_PageEntryDigitsOnly ==
    [][handlePageSubmit =>
          IF IsDigits(pageInput) /\ parseDigits(pageInput, 0) \in 1..numPages
          THEN pageNum' = parseDigits(pageInput, 0)
          ELSE /\ pageNum' = pageNum
               /\ pageInput' = toString(pageNum)]_vars

\* The payload of a response without text.
EmptyPayload == [kind |-> "empty", fields |-> {}]

\* C23: an analyzePaper call reads its file once and sends one request, a
\* translateAnalysis call sends one request, and no file is analysed twice.
\* A rejected request or a response without text settles the call with
\* that UpstreamError and sends nothing more.  The continuations of
\* App call neither function: analyzePaper is only called by the step
\* that selects a file, translateAnalysis only by a toggle to "zh".
C23_SingleShotNoRetry ==
    /\ [](/\ \A s \in Sessions :
               aTask[s].reads <= 1 /\ aTask[s].remote <= 1 /\ analyzeCalls[s] <= 1
          /\ \A i \in TranslateIds : tTask[i].remote <= 1)
    /\ [][/\ \A s \in Sessions, m \in UpstreamMessages :
                analyzePaperRemoteError(s, m) =>
                    /\ aTask'[s].pc = "settled"
                    /\ aTask'[s].result = Reject(Error("UpstreamError", m))
                    /\ aTask'[s].remote = aTask[s].remote
          /\ \A s \in Sessions :
                analyzePaperResponse(s, EmptyPayload) =>
                    /\ aTask'[s].result = Reject(NoResponse)
                    /\ aTask'[s].remote = aTask[s].remote
          /\ \A i \in TranslateIds, m \in UpstreamMessages :
                translateAnalysisRemoteError(i, m) =>
                    /\ tTask'[i].pc = "settled"
                    /\ tTask'[i].result = Reject(Error("UpstreamError", m))
                    /\ tTask'[i].remote = tTask[i].remote
          /\ \A i \in TranslateIds :
                translateAnalysisResponse(i, EmptyPayload) =>
                    /\ tTask'[i].result = Reject(NoResponse)
                    /\ tTask'[i].remote = tTask[i].remote
          /\ analyzeCalls' # analyzeCalls => session' = session + 1
          /\ Issued' # Issued => handleLanguageToggle("zh")
          /\ \A s \in Sessions :
                (aTask[s].pc = "settled" /\ aTask'[s].pc # "settled") => aTask'[s].pc = "done"
          /\ \A i \in TranslateIds :
                (tTask[i].pc = "settled" /\ tTask'[i].pc # "settled") => tTask'[i].pc = "done"]_vars

\* A translate call of the first file failed on its one request; the file
\* was closed and the analysis of a second file failed on its one request
\* with an UpstreamError, which is shown.
C23_Witness ==
    /\ session = 2
    /\ \E i \in TranslateCallsIn(1) :
          tTask[i].pc = "done" /\ ~tTask[i].returned /\ tTask[i].remote = 1
    /\ aTask[2].pc = "done" /\ aTask[2].remote = 1 /\ analyzeCalls[2] = 1
    /\ lastFailure.kind = "UpstreamError"
    /\ Truthy(state.error)

\* C24: at most one opened document is live, and none once the viewer is
\* torn down.
C24_AtMostOneLiveDocument == liveDocs <= IF url = Null THEN 0 ELSE 1

\* C25: the record in state.data is the analysis of the selected file, and
\* the continuation of an analyzePaper call whose file is no longer the
\* selected one, after a reset or after a later selection, leaves the
\* analysis state as it is.
C25_ResultBelongsToSelectedFile ==
    /\ [](Truthy(state.data) => pdfUrl # Null /\ state.data.of = session)
    /\ [][\A s \in Sessions :
             (handleFileSelectSettled(s) /\ (s # session \/ pdfUrl = Null))
                 => state' = state]_vars

\* C26: while a file is selected, a cached translation is a translation of
\* that file's record and isTranslating is set only while a call issued for
\* that file is under way; the continuation of a translateAnalysis call
\* issued for an earlier file leaves the cached translation and the
\* language as they are.
C26_TranslationBelongsToSession ==
    /\ [](pdfUrl # Null =>
             /\ Truthy(translatedData) => translatedData.of = session
             /\ isTranslating => \E i \in TranslateInFlight : tTask[i].session = session)
    /\ [][\A i \in TranslateIds :
             (handleLanguageToggleSettled(i) /\ tTask[i].session # session)
                 => UNCHANGED <<translatedData, language>>]_vars

\* C27: at most one of isLoading, a non-null error and non-null data holds.
C27_OneOfIdleLoadingFailedReady ==
    LET held == {f \in {"isLoading", "error", "data"} :
                    CASE f = "isLoading" -> state.isLoading
                      [] f = "error" -> Truthy(state.error)
                      [] OTHER -> Truthy(state.data)}
    IN  Cardinality(held) <= 1

\* The analysis of the first file completed while the second file was
\* loading: the state went from Loading to Ready with the analysis of the
\* second file still under way.
C27_Witness ==
    /\ session = 2
    /\ aTask[1].pc = "done"
    /\ aTask[2].pc \in {"reading", "remote"}
    /\ Truthy(state.data)
    /\ ~state.isLoading

\* C18: the continuation of an analysis leaves the viewer as it is, and
\* makes the state Ready with the record whenever the analysis returned
\* one, whatever became of the viewer's document; the continuation of
\* loadPdf leaves App's state as it is.
C18_LoadAndAnalysisIndependent ==
    [][/\ \A s \in Sessions :
             handleFileSelectSettled(s) =>
                 /\ UNCHANGED viewVars
                 /\ aTask[s].result.ok => state' = Ready(aTask[s].result.value)
       /\ (loadTask' # loadTask /\ pdfUrl' = pdfUrl) =>
             UNCHANGED <<appVars, session, aTask, tTask>>]_vars

\* The document could not be opened for preview, and its analysis is shown.
C18_Witness ==
    /\ loadTask = "failed"
    /\ pdfDoc = Null
    /\ Truthy(state.data)
    /\ state.data.of = session
    /\ currentAnalysis = state.data

====
